---- MODULE Spec2Model ----
(***************************************************************************)
(* Model of the two executables of CMakeTemplate:                          *)
(*   - the Diagnostic Reporter (@small/src/main.cpp), whose behaviour is   *)
(*     fixed by the preprocessor configuration it is compiled under;       *)
(*   - the helper functions of Basic/test/test_main.cpp (add, multiply) and *)
(*     the string operations its test uses.                                *)
(***************************************************************************)
EXTENDS Integers, Sequences, FiniteSets, TLC

VARIABLES
    defined,     \* the set of macro names the translation unit is compiled with
    cplusplus,   \* value of __cplusplus
    version,     \* <<major, minor, patchlevel>> of the detected compiler
    value,       \* expansion of each injected build definition
    sizes,       \* sizeof of the five reported types, in bytes
    pc,          \* position in the build / in main
    out,         \* lines written to standard output, in order
    exitCode,    \* return value of main (NoExit until main returns)
    calls,       \* number of helper-function calls made so far
    last         \* the most recent helper-function call and its result

vars == <<defined, cplusplus, version, value, sizes, pc, out, exitCode, calls, last>>

reporterVars == <<defined, cplusplus, version, value, sizes, pc, out, exitCode>>

-----------------------------------------------------------------------------
(* Compile-time configuration of the Diagnostic Reporter                    *)

CompilerMacros == {"__clang__", "__GNUC__"}

ModeMacros == {"_DEBUG", "NDEBUG"}

\* the definitions main.cpp expects the build configuration to inject
BuildDefs == {"PROJECT_NAME", "PROJECT_VERSION", "ONE_", "TWO_", "THREE_",
              "MAIN_FILE_", "MSG1", "MSG2"}

\* the subsets of BuildDefs the model builds with: all, none, each single
\* definition missing, and the two project definitions missing together
BuildDefSets ==
    {BuildDefs, {}, BuildDefs \ {"PROJECT_NAME", "PROJECT_VERSION"}}
        \cup {BuildDefs \ {d} : d \in BuildDefs}

\* values of __cplusplus: the five tokens main.cpp tests for, and values
\* below, between and above them
CplusplusValues ==
    {1, 199711, 200000, 201103, 201402, 201500, 201703, 202002, 202302}

CompilerVersions == {<<15, 0, 7>>, <<9, 4, 0>>}

BuildValues ==
    { [d \in BuildDefs |-> d],
      [d \in BuildDefs |-> IF d \in {"ONE_", "TWO_", "THREE_"} THEN "1" ELSE "x"] }

\* sizeof(char *), sizeof(int), sizeof(long), sizeof(float), sizeof(double)
LP64  == [ptr |-> 8, int |-> 4, long |-> 8, float |-> 4, double |-> 8]

ILP32 == [ptr |-> 4, int |-> 4, long |-> 4, float |-> 4, double |-> 8]

LLP64 == [ptr |-> 8, int |-> 4, long |-> 4, float |-> 4, double |-> 8]

IP16  == [ptr |-> 2, int |-> 2, long |-> 4, float |-> 4, double |-> 8]

DataModels == {LP64, ILP32, LLP64, IP16}

NoExit == -1

-----------------------------------------------------------------------------
(* operator<< on an unsigned integer: its decimal digits                    *)

Digit(d) == <<"0", "1", "2", "3", "4", "5", "6", "7", "8", "9">>[d + 1]

RECURSIVE Decimal(_)
Decimal(n) == IF n < 10 THEN <<Digit(n)>>
              ELSE Decimal(n \div 10) \o <<Digit(n % 10)>>

\* a line of output is a sequence of text pieces; Line1 is a line of one piece
Line1(s) == <<s>>

-----------------------------------------------------------------------------
(* The blocks of main, as the lines each one writes                         *)

GreetingLines == << Line1("Hello, World!"), Line1("Information from CMake:") >>

ProjectLines ==
    IF "PROJECT_NAME" \in defined /\ "PROJECT_VERSION" \in defined
    THEN << <<"Project Name is ", value["PROJECT_NAME"],
              " and Project Version is ", value["PROJECT_VERSION"]>> >>
    ELSE << >>

VersionLine ==
    <<"Version: ">> \o Decimal(version[1]) \o <<".">> \o Decimal(version[2])
        \o <<".">> \o Decimal(version[3])

CompilerLines_silent ==
    IF "__clang__" \in defined THEN << Line1("Compiler: Clang"), VersionLine >>
    ELSE IF "__GNUC__" \in defined THEN << Line1("Compiler: GCC"), VersionLine >>
    ELSE << >>

CompilerLines ==
    IF "__clang__" \in defined THEN << Line1("Compiler: Clang"), VersionLine >>
    ELSE IF "__GNUC__" \in defined THEN << Line1("Compiler: GCC"), VersionLine >>
    ELSE << Line1("Unknown compiler") >>

StandardLines_atLeast ==
    IF cplusplus >= 202002 THEN << Line1("C++20") >>
    ELSE IF cplusplus >= 201703 THEN << Line1("C++17") >>
    ELSE IF cplusplus >= 201402 THEN << Line1("C++14") >>
    ELSE IF cplusplus >= 201103 THEN << Line1("C++11") >>
    ELSE IF cplusplus >= 199711 THEN << Line1("C++98/03") >>
    ELSE << Line1("Newer C++ version or unknown") >>

StandardLines ==
    IF cplusplus = 199711 THEN << Line1("C++98/03") >>
    ELSE IF cplusplus = 201103 THEN << Line1("C++11") >>
    ELSE IF cplusplus = 201402 THEN << Line1("C++14") >>
    ELSE IF cplusplus = 201703 THEN << Line1("C++17") >>
    ELSE IF cplusplus = 202002 THEN << Line1("C++20") >>
    ELSE << Line1("Newer C++ version or unknown") >>

BuildModeLines_releaseFirst ==
    IF "NDEBUG" \in defined THEN << Line1("Release mode (NDEBUG is defined)") >>
    ELSE IF "_DEBUG" \in defined THEN << Line1("Debug mode (_DEBUG is defined)") >>
    ELSE << Line1("Debug mode (NDEBUG is not defined)") >>

BuildModeLines ==
    IF "_DEBUG" \in defined THEN << Line1("Debug mode (_DEBUG is defined)") >>
    ELSE IF "NDEBUG" \in defined THEN << Line1("Release mode (NDEBUG is defined)") >>
    ELSE << Line1("Debug mode (NDEBUG is not defined)") >>

BitWidth_bytes(bytes) == bytes

BitWidth(bytes) == bytes * 8

\* one "Size of T: <bits> bits" line
SizeLine(label, bytes) == <<label>> \o Decimal(BitWidth(bytes)) \o <<" bits">>

SizeLines_intFirst ==
    << SizeLine("Size of int: ", sizes.int),
       SizeLine("Size of char *: ", sizes.ptr),
       SizeLine("Size of long: ", sizes.long),
       SizeLine("Size of float: ", sizes.float),
       SizeLine("Size of double: ", sizes.double) >>

SizeLines ==
    << SizeLine("Size of char *: ", sizes.ptr),
       SizeLine("Size of int: ", sizes.int),
       SizeLine("Size of long: ", sizes.long),
       SizeLine("Size of float: ", sizes.float),
       SizeLine("Size of double: ", sizes.double) >>

DefinitionLines ==
    << Line1(""),
       Line1("target_compile_definitions:"),
       <<"Project Name: ", value["PROJECT_NAME"]>>,
       <<"Project Version: ", value["PROJECT_VERSION"]>>,
       <<"ONE_ = ", value["ONE_"]>>,
       <<"TWO = ", value["TWO_"]>>,
       <<"THREE = ", value["THREE_"]>> >>

SourcePropertyLines ==
    << Line1(""),
       Line1("set_source_files_properties:"),
       Line1("main.cpp PROPERTIES "),
       <<"MAIN_FILE_=\"", value["MAIN_FILE_"], "\" ">>,
       <<"MSG1=\"", value["MSG1"], "\" ">>,
       <<"MSG2=\"", value["MSG2"], "\" ">>,
       Line1("") >>

\* the names main uses outside any #if: each must be defined for the
\* translation unit to compile
UnguardedUses == {"PROJECT_NAME", "PROJECT_VERSION", "ONE_", "TWO_", "THREE_",
                  "MAIN_FILE_", "MSG1", "MSG2"}

Compiles == UnguardedUses \subseteq defined

-----------------------------------------------------------------------------
(* The Diagnostic Reporter as a state machine                               *)

Init ==
    /\ \E c \in SUBSET CompilerMacros, m \in SUBSET ModeMacros, b \in BuildDefSets :
           defined = c \cup m \cup b
    /\ cplusplus \in CplusplusValues
    /\ version \in CompilerVersions
    /\ value \in BuildValues
    /\ sizes \in DataModels
    /\ pc = "build"
    /\ out = << >>
    /\ exitCode = NoExit
    /\ calls = 0
    /\ last = [op |-> "none"]

Step(from, to, lines) ==
    /\ pc = from
    /\ pc' = to
    /\ out' = out \o lines
    /\ UNCHANGED <<defined, cplusplus, version, value, sizes, exitCode, calls, last>>

\* compiling main.cpp: an undefined name used outside #if is a compile error
Build ==
    /\ pc = "build"
    /\ pc' = IF Compiles THEN "greeting" ELSE "build_error"
    /\ UNCHANGED <<defined, cplusplus, version, value, sizes, out, exitCode, calls, last>>

PrintGreeting == Step("greeting", "project", GreetingLines)

PrintProject == Step("project", "compiler", ProjectLines)

PrintCompiler == Step("compiler", "standard", CompilerLines)

PrintStandard == Step("standard", "mode", StandardLines)

PrintBuildMode == Step("mode", "sizes", BuildModeLines)

PrintSizes == Step("sizes", "definitions", SizeLines)

PrintDefinitions == Step("definitions", "properties", DefinitionLines)

PrintSourceProperties == Step("properties", "return", SourcePropertyLines)

Return ==
    /\ pc = "return"
    /\ pc' = "done"
    /\ exitCode' = 0
    /\ UNCHANGED <<defined, cplusplus, version, value, sizes, out, calls, last>>

Next ==
    \/ Build
    \/ PrintGreeting
    \/ PrintProject
    \/ PrintCompiler
    \/ PrintStandard
    \/ PrintBuildMode
    \/ PrintSizes
    \/ PrintDefinitions
    \/ PrintSourceProperties
    \/ Return

Spec == Init /\ [][Next]_vars

-----------------------------------------------------------------------------
(* The helper functions of test_main.cpp                                    *)

\* the range of int (32 bits, two's complement)
INT_MAX == 2147483647

INT_MIN == -2147483647 - 1

MaxCalls == 3

\* arguments the functions are called with: the literals of the test cases,
\* the ends of the range, and values whose sums and products leave it
IntSamples == {INT_MIN, -32768, -2, -1, 0, 1, 2, 3, 100, 65536, INT_MAX}

Abs(x) == IF x < 0 THEN -x ELSE x

\* a + b lies in INT_MIN..INT_MAX
AddRepresentable(a, b) ==
    IF b >= 0 THEN a <= INT_MAX - b ELSE a >= INT_MIN - b

\* a - b lies in INT_MIN..INT_MAX
SubRepresentable(a, b) ==
    IF b >= 0 THEN a >= INT_MIN + b ELSE a <= INT_MAX + b

\* a * b lies in INT_MIN..INT_MAX
MulRepresentable(a, b) ==
    IF a = 0 \/ b = 0 THEN TRUE
    ELSE IF a = INT_MIN THEN b = 1
    ELSE IF b = INT_MIN THEN a = 1
    ELSE LET x == Abs(a)
             y == Abs(b)
         IN  IF (a > 0) = (b > 0) THEN x <= INT_MAX \div y
             ELSE IF y = 1 THEN TRUE
             ELSE x <= ((INT_MAX - (y - 1)) \div y) + 1

add_minus(a, b) == IF SubRepresentable(a, b) THEN {a - b} ELSE IntSamples

\* the values `return a + b` can produce: the sum, or anything at all when
\* the signed addition overflows
add(a, b) == IF AddRepresentable(a, b) THEN {a + b} ELSE IntSamples

multiply_plus(a, b) == IF AddRepresentable(a, b) THEN {a + b} ELSE IntSamples

\* the values `return a * b` can produce: the product, or anything at all
\* when the signed multiplication overflows
multiply(a, b) == IF MulRepresentable(a, b) THEN {a * b} ELSE IntSamples

\* std::string::npos, the largest value of the size type (here the largest
\* integer the model has)
npos == INT_MAX

HelloWorld == <<"H", "e", "l", "l", "o", ",", " ", "W", "o", "r", "l", "d", "!">>

World == <<"W", "o", "r", "l", "d">>

StringSamples ==
    {HelloWorld, World, << >>, <<"w", "o", "r", "l", "d">>, <<"o">>,
     <<"l", "d", "!">>, <<"d", "!", "!">>}

\* std::string::length
length(str) == Len(str)

MatchesAt(str, sub, i) ==
    /\ i + Len(sub) <= Len(str)
    /\ \A k \in 1..Len(sub) : str[i + k] = sub[k]

find_prefix(str, sub) == IF MatchesAt(str, sub, 0) THEN 0 ELSE npos

\* std::string::find(sub): the lowest position at which sub occurs in str,
\* npos when it occurs nowhere
find(str, sub) ==
    LET hits == {i \in 0..Len(str) : MatchesAt(str, sub, i)}
    IN  IF hits = {} THEN npos ELSE CHOOSE i \in hits : \A j \in hits : i <= j

InitFn ==
    /\ defined = {}
    /\ cplusplus = 201703
    /\ version = <<0, 0, 0>>
    /\ value = [d \in BuildDefs |-> d]
    /\ sizes = LP64
    /\ pc = "idle"
    /\ out = << >>
    /\ exitCode = NoExit
    /\ calls = 0
    /\ last = [op |-> "none"]

Called(op, args, res) ==
    /\ calls < MaxCalls
    /\ calls' = calls + 1
    /\ last' = [op |-> op, args |-> args, res |-> res]
    /\ UNCHANGED reporterVars

CallAdd == \E a, b \in IntSamples : \E r \in add(a, b) : Called("add", <<a, b>>, r)

CallMultiply ==
    \E a, b \in IntSamples : \E r \in multiply(a, b) : Called("multiply", <<a, b>>, r)

\* the body of TEST(StringTest, BasicStringOperations), for any string and
\* any substring searched for
CallStringOperations ==
    \E str, sub \in StringSamples :
        Called("string", <<str, sub>>, <<length(str), find(str, sub)>>)

NextFn ==
    \/ CallAdd
    \/ CallMultiply
    \/ CallStringOperations

SpecFn == InitFn /\ [][NextFn]_vars

\* main runs to completion once started: nothing else is scheduled
FairSpec == Spec /\ WF_vars(Next)

-----------------------------------------------------------------------------
(* Reading the output back: which block of the report a line belongs to     *)

CompilerFamilyTexts == {"Compiler: Clang", "Compiler: GCC", "Unknown compiler"}

StandardTexts == {"C++98/03", "C++11", "C++14", "C++17", "C++20",
                  "Newer C++ version or unknown"}

DebugTexts == {"Debug mode (_DEBUG is defined)", "Debug mode (NDEBUG is not defined)"}

ReleaseTexts == {"Release mode (NDEBUG is defined)"}

SizeLabels == <<"Size of char *: ", "Size of int: ", "Size of long: ",
                "Size of float: ", "Size of double: ">>

IsCompilerFamilyLine(l) == Len(l) = 1 /\ l[1] \in CompilerFamilyTexts

IsStandardLine(l) == Len(l) = 1 /\ l[1] \in StandardTexts

IsBuildModeLine(l) == Len(l) = 1 /\ l[1] \in DebugTexts \cup ReleaseTexts

IsSizeLine(k, l) == l[1] = SizeLabels[k]

LinesWhere(P(_)) == {i \in 1..Len(out) : P(out[i])}

\* the blocks of the report, numbered in the order the report lists them
Rank(l) ==
    IF l[1] \in {"Hello, World!", "Information from CMake:"} THEN 1
    ELSE IF l[1] = "Project Name is " THEN 2
    ELSE IF l[1] \in CompilerFamilyTexts \cup {"Version: "} THEN 3
    ELSE IF IsStandardLine(l) THEN 4
    ELSE IF IsBuildModeLine(l) THEN 5
    ELSE IF \E k \in 1..5 : IsSizeLine(k, l)
         THEN 5 + (CHOOSE k \in 1..5 : IsSizeLine(k, l))
    ELSE 11

Ranks == {Rank(out[i]) : i \in 1..Len(out)}

AfterStandard == pc \in {"mode", "sizes", "definitions", "properties", "return", "done"}

AfterBuildMode == pc \in {"sizes", "definitions", "properties", "return", "done"}

AfterSizes == pc \in {"definitions", "properties", "return", "done"}

-----------------------------------------------------------------------------
\* C1: under every combination of compiler, language-standard and build-mode
\* macros, main once started runs to its end, returns 0, and by then has
\* written a compiler-family line, a language-standard line, a build-mode line
\* and a size line for each of char *, int, long, float and double.
C1_TerminatesWithFullReport ==
    /\ [](pc = "done" =>
            /\ exitCode = 0
            /\ LinesWhere(IsCompilerFamilyLine) # {}
            /\ LinesWhere(IsStandardLine) # {}
            /\ LinesWhere(IsBuildModeLine) # {}
            /\ \A k \in 1..5 : \E i \in 1..Len(out) : IsSizeLine(k, out[i]))
    /\ ((pc = "greeting") ~> (pc = "done"))

C1_Witness ==
    /\ pc = "done"
    /\ exitCode = 0
    /\ defined \cap (CompilerMacros \cup ModeMacros) = {}
    /\ cplusplus = 200000
    /\ Len(out) >= 8

\* C6: whichever of the eight build definitions is absent, the build does not
\* fail and the program runs to exit code 0 with the dependent output omitted.
C6_AbsentDefinitionNeverFails ==
    /\ pc # "build_error"
    /\ pc = "done" =>
          /\ exitCode = 0
          /\ \A d \in BuildDefs \ defined :
                \A i \in 1..Len(out) : \A j \in 1..Len(out[i]) : out[i][j] # value[d]

\* C7: exactly one build-mode line is written; it is a Debug line whenever
\* _DEBUG is defined (NDEBUG or not), a Release line only when _DEBUG is
\* undefined and NDEBUG is defined, and a Debug line when neither is defined.
C7_BuildModePrecedence ==
    AfterBuildMode =>
        /\ Cardinality(LinesWhere(IsBuildModeLine)) = 1
        /\ \A i \in LinesWhere(IsBuildModeLine) :
              /\ "_DEBUG" \in defined => out[i][1] \in DebugTexts
              /\ out[i][1] \in ReleaseTexts <=>
                    ("_DEBUG" \notin defined /\ "NDEBUG" \in defined)
              /\ defined \cap ModeMacros = {} => out[i][1] \in DebugTexts

C7_Witness ==
    /\ pc = "done"
    /\ ModeMacros \subseteq defined
    /\ \E i \in 1..Len(out) : out[i] = Line1("Debug mode (_DEBUG is defined)")

\* the fixed token set of the language-standard block
StandardTokens ==
    { <<199711, "C++98/03">>, <<201103, "C++11">>, <<201402, "C++14">>,
      <<201703, "C++17">>, <<202002, "C++20">> }

\* C8: exactly one language-standard line is written; it names an edition iff
\* __cplusplus equals that edition's token, and every other value (between or
\* above the tokens included) is reported as "Newer C++ version or unknown".
C8_StandardByExactMatch ==
    AfterStandard =>
        /\ Cardinality(LinesWhere(IsStandardLine)) = 1
        /\ \A i \in LinesWhere(IsStandardLine) :
              /\ \A t \in StandardTokens : (out[i][1] = t[2]) <=> (cplusplus = t[1])
              /\ (out[i][1] = "Newer C++ version or unknown") <=>
                    (\A t \in StandardTokens : cplusplus # t[1])

C8_Witness ==
    /\ pc = "done"
    /\ cplusplus = 201500
    /\ \E i \in 1..Len(out) : out[i] = Line1("Newer C++ version or unknown")

\* C9: the output is always in the one fixed order greeting, project line,
\* compiler, language standard, build mode, the five sizes (char *, int, long,
\* float, double), echo of the build definitions; the project line is there
\* iff both project definitions are; main has returned 0 only after every
\* block has been written.
C9_FixedOrder ==
    /\ \A i, j \in 1..Len(out) : i < j => Rank(out[i]) <= Rank(out[j])
    /\ out # << >> => out[1] = Line1("Hello, World!")
    /\ \A k \in 1..5 : Cardinality(LinesWhere(LAMBDA l : IsSizeLine(k, l))) <= 1
    /\ pc \notin {"build", "build_error", "greeting", "project"} =>
          ((2 \in Ranks) <=> ({"PROJECT_NAME", "PROJECT_VERSION"} \subseteq defined))
    /\ exitCode # NoExit =>
          /\ exitCode = 0
          /\ pc = "done"
          /\ ({1} \cup (3..11)) \subseteq Ranks

C9_Witness ==
    /\ pc = "done"
    /\ exitCode = 0
    /\ Ranks = 1..11
    /\ "__clang__" \in defined

\* reading a decimal numeral back
DigitValue(c) ==
    CASE c = "0" -> 0 [] c = "1" -> 1 [] c = "2" -> 2 [] c = "3" -> 3 [] c = "4" -> 4
      [] c = "5" -> 5 [] c = "6" -> 6 [] c = "7" -> 7 [] c = "8" -> 8 [] c = "9" -> 9

RECURSIVE ParseDecimal(_)
ParseDecimal(ds) ==
    IF ds = << >> THEN 0
    ELSE 10 * ParseDecimal(SubSeq(ds, 1, Len(ds) - 1)) + DigitValue(ds[Len(ds)])

PrintedNumeral(l) == SubSeq(l, 2, Len(l) - 1)

SizeOf(k) == <<sizes.ptr, sizes.int, sizes.long, sizes.float, sizes.double>>[k]

\* C10: the numeral printed for each of the five types reads as sizeof(T) * 8
\* of the build; with sizeof int 4, long 8, pointer 8, float 4, double 8 the
\* numerals are 32, 64, 64, 32 and 64.
C10_BitWidths ==
    AfterSizes =>
        /\ \A k \in 1..5 : \E i \in 1..Len(out) :
              /\ IsSizeLine(k, out[i])
              /\ out[i][Len(out[i])] = " bits"
              /\ ParseDecimal(PrintedNumeral(out[i])) = SizeOf(k) * 8
        /\ sizes = LP64 =>
              /\ <<"Size of int: ", "3", "2", " bits">> \in {out[i] : i \in 1..Len(out)}
              /\ <<"Size of long: ", "6", "4", " bits">> \in {out[i] : i \in 1..Len(out)}
              /\ <<"Size of char *: ", "6", "4", " bits">> \in {out[i] : i \in 1..Len(out)}
              /\ <<"Size of float: ", "3", "2", " bits">> \in {out[i] : i \in 1..Len(out)}
              /\ <<"Size of double: ", "6", "4", " bits">> \in {out[i] : i \in 1..Len(out)}

C10_Witness ==
    /\ pc = "done"
    /\ sizes = LP64
    /\ <<"Size of long: ", "6", "4", " bits">> \in {out[i] : i \in 1..Len(out)}

\* C3: whatever was called before, add(a, b) returns exactly a + b whenever
\* the sum is representable as int; add(2,3) = 5, add(-1,1) = 0, add(0,0) = 0.
C3_AddIsSum ==
    last.op = "add" =>
        LET a == last.args[1]
            b == last.args[2]
        IN  /\ AddRepresentable(a, b) => last.res = a + b
            /\ last.args = <<2, 3>> => last.res = 5
            /\ last.args = <<-1, 1>> => last.res = 0
            /\ last.args = <<0, 0>> => last.res = 0

C3_Witness ==
    /\ calls >= 2
    /\ last = [op |-> "add", args |-> <<2, 3>>, res |-> 5]

\* C4: whatever was called before, multiply(a, b) returns exactly a * b
\* whenever the product is representable as int; multiply(2,3) = 6,
\* multiply(-2,3) = -6, and multiply(0,b) = 0 for every b.
C4_MultiplyIsProduct ==
    last.op = "multiply" =>
        LET a == last.args[1]
            b == last.args[2]
        IN  /\ MulRepresentable(a, b) => last.res = a * b
            /\ last.args = <<2, 3>> => last.res = 6
            /\ last.args = <<-2, 3>> => last.res = -6
            /\ a = 0 => last.res = 0

C4_Witness ==
    /\ calls >= 2
    /\ last = [op |-> "multiply", args |-> <<-2, 3>>, res |-> -6]

\* C5: for the string "Hello, World!" the length is 13 and the search for
\* "World" returns a position that is not npos.
C5_HelloWorldString ==
    (last.op = "string" /\ last.args[1] = HelloWorld) =>
        /\ last.res[1] = 13
        /\ last.args[2] = World => last.res[2] # npos

C5_Witness ==
    /\ last.op = "string"
    /\ last.args = <<HelloWorld, World>>
    /\ last.res = <<13, 7>>

====
